---- MODULE Spec2Model ----
(***************************************************************************)
(* binvis: the 2-D grid (Image<T>), the Hilbert curve (HilbertCurve) and   *)
(* the byte-pair accumulation (put_points) of src/main.rs.                 *)
(*                                                                         *)
(* usize values are kept as integers congruent to the machine value modulo *)
(* 2^64; a value that wrapped below zero (2^64 - k) is written -k.  The    *)
(* build decides what an arithmetic overflow does: with overflow checks    *)
(* (debug profile) it panics, without them (release profile) it wraps.     *)
(* The profile is the variable overflow_checks, chosen in Init.            *)
(***************************************************************************)
EXTENDS Integers, Sequences, FiniteSets, TLC

\* The curve walk hands HilbertCurve::new the sizes 0..2^MaxOrder.
MaxOrder == 3

\* Largest width and height of an image.
MaxSide == 4

\* Most index_mut writes and put_points calls made on one image.
MaxEdits == 1

\* Longest byte sequence handed to put_points on the 256 x 256 image.
MaxFreqLen == 4

\* Most cells of an image that remap_positions is called on directly.
MaxPermCells == 3

VARIABLES
    overflow_checks, \* build profile: TRUE = overflow panics, FALSE = wraps
    \* --- the curve walk (tests::inverse_hilbert, generalised over n) ---
    n,               \* the size given to HilbertCurve::new
    curve,           \* the constructed HilbertCurve ([order |-> k]) or NoCurve
    i,               \* loop counter of the walk: values 0..i-1 are done
    point,           \* value_to_point of the last value walked
    prev_point,      \* value_to_point of the value before it
    back,            \* point_to_value(point) of the last value walked
    points,          \* every point produced so far
    cpc,             \* "idle", "start", "loop", "done" or "panic"
    \* --- the image (Image<T>) and the calls made on it ---
    width,           \* Image::width
    height,          \* Image::height
    data,            \* Image::data; linear index k is data[k + 1]
    panicked,        \* a call on the image panicked: the program is gone
    width0,          \* the width given to Image::new
    height0,         \* the height given to Image::new
    op,              \* the last call made on the image
    inverted,        \* the last two calls were a curve transform and then the
                     \* opposite one, and both returned
    arg,             \* the argument of the last call
    before,          \* data before the last call, when it is a curve transform
    read,            \* what the last call returned, when it is an Index read
    edits            \* number of index_mut writes and put_points calls so far

curve_vars == <<n, curve, i, point, prev_point, back, points, cpc>>
image_vars == <<width, height, data, panicked, width0, height0,
                op, inverted, arg, before, read, edits>>
vars == <<overflow_checks, curve_vars, image_vars>>

----------------------------------------------------------------------------
\* Bit operations on usize.

RECURSIVE And(_, _)
\* a & b for b >= 0 (a may be a wrapped value).
And(a, b) ==
    IF b = 0 THEN 0
    ELSE (a % 2) * (b % 2) + 2 * And(a \div 2, b \div 2)

RECURSIVE Xor(_, _)
\* a ^ b for a, b >= 0.
Xor(a, b) ==
    IF a = 0 THEN b
    ELSE IF b = 0 THEN a
    ELSE (((a % 2) + (b % 2)) % 2) + 2 * Xor(a \div 2, b \div 2)

\* a < b as unsigned machine words.
ULess(a, b) == IF (a < 0) = (b < 0) THEN a < b ELSE b < 0

Pos2(px, py) == [x |-> px, y |-> py]

NoCurve == [order |-> -2]

----------------------------------------------------------------------------
\* HilbertCurve

RECURSIVE new_loop(_, _)
\* while current > 0 { current /= 2; order += 1; }
new_loop(current, order) ==
    IF current > 0 THEN new_loop(current \div 2, order + 1)
    ELSE [current |-> current, order |-> order]

\* HilbertCurve::new(size): [panic, order].
HilbertCurve_new(size, checks) ==
    LET r == new_loop(size, 0) IN
    IF checks /\ r.order = 0
    THEN [panic |-> TRUE, order |-> 0]         \* order -= 1 overflows
    ELSE IF r.current # 0
         THEN [panic |-> TRUE, order |-> 0]    \* "size must be a power of 2"
         ELSE [panic |-> FALSE, order |-> r.order - 1]

rotate_noreflect(pos, check, value, checks) ==
    IF check.y # 0 THEN [panic |-> FALSE, pos |-> pos]
    ELSE [panic |-> FALSE, pos |-> Pos2(pos.y, pos.x)]

\* HilbertCurve::rotate: [panic, pos].
rotate(pos, check, value, checks) ==
    IF check.y # 0 THEN [panic |-> FALSE, pos |-> pos]
    ELSE IF check.x = 1
         THEN IF checks /\ (ULess(value - 1, pos.x) \/ ULess(value - 1, pos.y))
              THEN [panic |-> TRUE, pos |-> pos]
              ELSE [panic |-> FALSE,
                    pos |-> Pos2(value - 1 - pos.y, value - 1 - pos.x)]
         ELSE [panic |-> FALSE, pos |-> Pos2(pos.y, pos.x)]

p2v_digit_mut(s, rx, ry) == s * s * Xor(2 * rx, ry)

\* s * s * ((3 * rx) ^ ry)
p2v_digit(s, rx, ry) == s * s * Xor(3 * rx, ry)

RECURSIVE p2v_loop(_, _, _, _, _)
\* The planes k-1, k-2, ..., 0 of (0..self.order).rev(), summed onto acc.
p2v_loop(order, k, pos, acc, checks) ==
    IF k <= 0 THEN [panic |-> FALSE, value |-> acc]
    ELSE LET s  == 2 ^ (k - 1)
             rx == IF And(pos.x, s) > 0 THEN 1 ELSE 0
             ry == IF And(pos.y, s) > 0 THEN 1 ELSE 0
             r  == rotate(pos, Pos2(rx, ry), 2 ^ order, checks)
         IN IF r.panic THEN [panic |-> TRUE, value |-> acc]
            ELSE p2v_loop(order, k - 1, r.pos, acc + p2v_digit(s, rx, ry), checks)

\* HilbertCurve::point_to_value: [panic, value].  Not for the order usize::MAX
\* (written -1) that new(0) returns without overflow checks: no call is made on
\* that curve, there being no value below 0 * 0 and no cell in a 0 x 0 image.
point_to_value(order, pos, checks) == p2v_loop(order, order, pos, 0, checks)

v2p_rx_mut(value) == And(value, 1)

\* rx = (value / 2) & 1
v2p_rx(value) == And(value \div 2, 1)

\* ry = (value ^ rx) & 1
v2p_ry(value, rx) == And(Xor(value, rx), 1)

RECURSIVE v2p_loop(_, _, _, _, _)
\* The planes k, k+1, ..., order-1 of 0..self.order.
v2p_loop(order, k, pos, value, checks) ==
    IF k >= order THEN [panic |-> FALSE, pos |-> pos]
    ELSE LET s  == 2 ^ k
             rx == v2p_rx(value)
             ry == v2p_ry(value, rx)
             r  == rotate(pos, Pos2(rx, ry), s, checks)
         IN IF r.panic THEN [panic |-> TRUE, pos |-> pos]
            ELSE v2p_loop(order, k + 1,
                          Pos2(r.pos.x + s * rx, r.pos.y + s * ry),
                          value \div 4, checks)

\* HilbertCurve::value_to_point: [panic, pos].
value_to_point(order, value, checks) ==
    v2p_loop(order, 0, Pos2(0, 0), value, checks)

----------------------------------------------------------------------------
\* Image<T>

\* let image_size = 256;
image_size == 256

\* Image::new(width, height, c)
Image_new(w, h, c) ==
    [width |-> w, height |-> h, data |-> [k \in 1..(w * h) |-> c]]

\* Image::to_index_assoc(width, pos)
to_index_assoc(w, pos) == pos.y * w + pos.x

index_to_pos_assoc_swapped(w, index) == Pos2(index \div w, index % w)

\* Image::index_to_pos_assoc(width, index)
index_to_pos_assoc(w, index) == Pos2(index % w, index \div w)

\* The bounds check of Vec's indexing, on a usize index.
in_bounds(d, idx) == idx >= 0 /\ idx < Len(d)

\* Image::to_index then the slot of self.data, as Index::index and
\* IndexMut::index_mut take it: [panic, index].
to_index(w, h, d, pos) ==
    LET idx == to_index_assoc(w, pos) IN
    IF in_bounds(d, idx) THEN [panic |-> FALSE, index |-> idx]
    ELSE [panic |-> TRUE, index |-> 0]

\* The closure main hands to Image::map: a count to the grey level c of
\* Color::RGB(c, c, c), kept as the number c.
\* v / top_value is +inf for v > 0 and NaN for v = 0 when top_value = 0.
color(v, top_value) ==
    IF top_value = 0 THEN (IF v = 0 THEN 0 ELSE 255)
    ELSE LET c == (v * 256) \div top_value IN IF c > 255 THEN 255 ELSE c

map_resized(d, top_value) == [k \in 1..(Len(d) - 1) |-> color(d[k], top_value)]

\* Image::map, with main's closure.
map(d, top_value) == [k \in 1..Len(d) |-> color(d[k], top_value)]

RECURSIVE remap_loop_inplace(_, _, _, _)
remap_loop_inplace(d, output, F, k) ==
    IF k >= Len(d) THEN [panic |-> FALSE, data |-> output]
    ELSE IF F[k + 1].panic THEN [panic |-> TRUE, data |-> d]
    ELSE LET new_position == F[k + 1].value IN
         IF ~in_bounds(output, new_position) THEN [panic |-> TRUE, data |-> d]
         ELSE remap_loop_inplace(d,
                  [output EXCEPT ![new_position + 1] = output[k + 1]], F, k + 1)

RECURSIVE remap_loop(_, _, _, _)
\* The for_each of remap_positions from element k on.  F[k + 1] is what the
\* closure f returns for k: [panic, value].  A panic leaves self.data as it was.
remap_loop(d, output, F, k) ==
    IF k >= Len(d) THEN [panic |-> FALSE, data |-> output]
    ELSE IF F[k + 1].panic THEN [panic |-> TRUE, data |-> d]
    ELSE LET new_position == F[k + 1].value IN
         IF ~in_bounds(output, new_position) THEN [panic |-> TRUE, data |-> d]
         ELSE remap_loop(d,
                  [output EXCEPT ![new_position + 1] = d[k + 1]], F, k + 1)

\* Image::remap_positions: [panic, data].
remap_positions(d, F) == remap_loop(d, d, F, 0)

\* Image::hilbertify: [panic, data].
hilbertify(w, h, d, checks) ==
    IF w # h THEN [panic |-> TRUE, data |-> d]
    ELSE LET c == HilbertCurve_new(w, checks) IN
         IF c.panic THEN [panic |-> TRUE, data |-> d]
         ELSE remap_positions(d,
                  [k \in 1..Len(d) |->
                      point_to_value(c.order, index_to_pos_assoc(w, k - 1), checks)])

\* Image::unhilbertify: [panic, data].
unhilbertify(w, h, d, checks) ==
    IF w # h THEN [panic |-> TRUE, data |-> d]
    ELSE LET c == HilbertCurve_new(w, checks) IN
         IF c.panic THEN [panic |-> TRUE, data |-> d]
         ELSE remap_positions(d,
                  [k \in 1..Len(d) |->
                      LET p == value_to_point(c.order, k - 1, checks) IN
                      [panic |-> p.panic, value |-> to_index_assoc(w, p.pos)]])

RECURSIVE put_loop_chunked(_, _, _, _, _)
put_loop_chunked(w, h, d, bytes, j) ==
    IF j >= Len(bytes) THEN [panic |-> FALSE, data |-> d]
    ELSE LET slot == to_index(w, h, d, Pos2(bytes[j], bytes[j + 1])) IN
         IF slot.panic THEN [panic |-> TRUE, data |-> d]
         ELSE put_loop_chunked(w, h,
                  [d EXCEPT ![slot.index + 1] = d[slot.index + 1] + 1], bytes, j + 2)

RECURSIVE put_loop(_, _, _, _, _)
\* The loop of put_points from the pair (bytes[j], bytes[j + 1]) on (j from 1).
\* A panic leaves the increments already made.  The u32 counts stay far below
\* 2^32 for the sequences drawn here.
put_loop(w, h, d, bytes, j) ==
    IF j >= Len(bytes) THEN [panic |-> FALSE, data |-> d]
    ELSE LET slot == to_index(w, h, d, Pos2(bytes[j], bytes[j + 1])) IN
         IF slot.panic THEN [panic |-> TRUE, data |-> d]
         ELSE put_loop(w, h,
                  [d EXCEPT ![slot.index + 1] = d[slot.index + 1] + 1], bytes, j + 1)

\* put_points(image, bytes): [panic, data].
put_points(w, h, d, bytes) == put_loop(w, h, d, bytes, 1)

----------------------------------------------------------------------------
\* The curve walk: construct a curve of size n, then for i in 0..n*n take
\* value_to_point(i) and point_to_value of it.

\* An image that no call is made on.
ImageIdle ==
    /\ width = 0 /\ height = 0 /\ data = <<>>
    /\ width0 = 0 /\ height0 = 0
    /\ panicked = FALSE
    /\ op = "new" /\ inverted = FALSE /\ arg = 0
    /\ before = <<>> /\ read = 0 /\ edits = 0

CurveInit ==
    /\ overflow_checks \in BOOLEAN
    /\ ImageIdle
    /\ n \in 0..(2 ^ MaxOrder)
    /\ curve = NoCurve
    /\ i = 0
    /\ point = Pos2(0, 0)
    /\ prev_point = Pos2(0, 0)
    /\ back = 0
    /\ points = {}
    /\ cpc = "start"

\* let curve = HilbertCurve::new(n);
CurveNew ==
    /\ cpc = "start"
    /\ LET r == HilbertCurve_new(n, overflow_checks) IN
       IF r.panic
       THEN /\ cpc' = "panic"
            /\ curve' = curve
       ELSE /\ cpc' = "loop"
            /\ curve' = [order |-> r.order]
    /\ UNCHANGED <<overflow_checks, image_vars, n, i, point, prev_point, back, points>>

\* One iteration of for i in 0..total.
CurveStep ==
    /\ cpc = "loop"
    /\ i < n * n
    /\ LET p == value_to_point(curve.order, i, overflow_checks)
           v == point_to_value(curve.order, p.pos, overflow_checks)
       IN IF p.panic \/ v.panic
          THEN /\ cpc' = "panic"
               /\ UNCHANGED <<i, point, prev_point, back, points>>
          ELSE /\ point' = p.pos
               /\ prev_point' = point
               /\ back' = v.value
               /\ points' = points \cup {p.pos}
               /\ i' = i + 1
               /\ cpc' = "loop"
    /\ UNCHANGED <<overflow_checks, image_vars, n, curve>>

\* The loop ends.
CurveDone ==
    /\ cpc = "loop"
    /\ i >= n * n
    /\ cpc' = "done"
    /\ UNCHANGED <<overflow_checks, image_vars, n, curve, i, point, prev_point, back, points>>

CurveNext == CurveNew \/ CurveStep \/ CurveDone

SpecCurve == CurveInit /\ [][CurveNext]_vars

----------------------------------------------------------------------------
\* Calls on an image.

\* No curve walk.
CurveIdle ==
    /\ n = 0 /\ curve = NoCurve /\ i = 0
    /\ point = Pos2(0, 0) /\ prev_point = Pos2(0, 0)
    /\ back = 0 /\ points = {} /\ cpc = "idle"

\* The positions handed to Index and IndexMut: the first and the last cell, the
\* position one column beyond the first and the last row, and the position one
\* row beyond the first column.
Positions ==
    {p \in {Pos2(0, 0), Pos2(width - 1, height - 1), Pos2(width, 0),
            Pos2(width, height - 1), Pos2(0, height)} : p.x >= 0 /\ p.y >= 0}

\* The values written through IndexMut.
WriteValues == {7}

\* The byte sequences handed to put_points on a small image.
PutSamples ==
    {<<>>, <<0>>, <<0, 1, 0, 1>>, <<0, 1, 2, 3, 0>>, <<1, 1, 0, MaxSide>>}

\* The top_value of main's map closure.
TopValues == {0, 1}

\* The bijections on 0..m-1, as sequences: f(k) is P[k + 1].
Bijections(m) ==
    {P \in [1..m -> 0..(m - 1)] : \A a, b \in 1..m : a # b => P[a] # P[b]}

\* Image::new(w, h, 0)
ImageInit ==
    /\ overflow_checks \in BOOLEAN
    /\ CurveIdle
    /\ \E w \in 0..MaxSide, h \in 0..MaxSide :
          LET img == Image_new(w, h, 0) IN
          /\ width = img.width /\ height = img.height /\ data = img.data
          /\ width0 = w /\ height0 = h
    /\ panicked = FALSE
    /\ op = "new" /\ inverted = FALSE /\ arg = 0
    /\ before = <<>> /\ read = 0 /\ edits = 0

\* What every call leaves alone, and the record of the call.
Called(name, a) ==
    /\ op' = name /\ arg' = a
    /\ before' = IF name \in {"hilbertify", "unhilbertify"} THEN data ELSE <<>>
    /\ UNCHANGED <<overflow_checks, curve_vars, width0, height0>>

\* image[pos]
Index(pos) ==
    /\ ~panicked
    /\ LET slot == to_index(width, height, data, pos) IN
       /\ panicked' = slot.panic
       /\ read' = IF slot.panic THEN 0 ELSE data[slot.index + 1]
    /\ inverted' = FALSE
    /\ Called("index", pos)
    /\ UNCHANGED <<width, height, data, edits>>

\* image[pos] = v
IndexMut(pos, v) ==
    /\ ~panicked
    /\ edits < MaxEdits
    /\ LET slot == to_index(width, height, data, pos) IN
       /\ panicked' = slot.panic
       /\ data' = IF slot.panic THEN data ELSE [data EXCEPT ![slot.index + 1] = v]
    /\ edits' = edits + 1
    /\ inverted' = FALSE
    /\ Called("index_mut", pos)
    /\ read' = 0 /\ UNCHANGED <<width, height>>

\* image.map(...)
Map(top_value) ==
    /\ ~panicked
    /\ data' = map(data, top_value)
    /\ inverted' = FALSE
    /\ Called("map", top_value)
    /\ read' = 0 /\ UNCHANGED <<width, height, panicked, edits>>

\* image.hilbertify()
Hilbertify ==
    /\ ~panicked
    /\ LET r == hilbertify(width, height, data, overflow_checks) IN
       /\ panicked' = r.panic
       /\ data' = r.data
    /\ inverted' = (op = "unhilbertify" /\ ~panicked')
    /\ Called("hilbertify", 0)
    /\ read' = 0 /\ UNCHANGED <<width, height, edits>>

\* image.unhilbertify()
Unhilbertify ==
    /\ ~panicked
    /\ LET r == unhilbertify(width, height, data, overflow_checks) IN
       /\ panicked' = r.panic
       /\ data' = r.data
    /\ inverted' = (op = "hilbertify" /\ ~panicked')
    /\ Called("unhilbertify", 0)
    /\ read' = 0 /\ UNCHANGED <<width, height, edits>>

\* image.remap_positions(f) for a bijection f
RemapPositions(P) ==
    /\ ~panicked
    /\ LET r == remap_positions(data,
                    [k \in 1..Len(data) |-> [panic |-> FALSE, value |-> P[k]]]) IN
       /\ panicked' = r.panic
       /\ data' = r.data
    /\ inverted' = FALSE
    /\ Called("remap_positions", P)
    /\ read' = 0 /\ UNCHANGED <<width, height, edits>>

\* put_points(&mut image, bytes)
PutPoints(bytes) ==
    /\ ~panicked
    /\ edits < MaxEdits
    /\ LET r == put_points(width, height, data, bytes) IN
       /\ panicked' = r.panic
       /\ data' = r.data
    /\ edits' = edits + 1
    /\ inverted' = FALSE
    /\ Called("put_points", bytes)
    /\ read' = 0 /\ UNCHANGED <<width, height>>

ImageNext ==
    \/ \E pos \in Positions : Index(pos)
    \/ \E pos \in Positions, v \in WriteValues : IndexMut(pos, v)
    \/ \E t \in TopValues : Map(t)
    \/ Hilbertify
    \/ Unhilbertify
    \/ /\ Len(data) <= MaxPermCells
       /\ \E P \in Bijections(Len(data)) : RemapPositions(P)
    \/ \E bytes \in PutSamples : PutPoints(bytes)

SpecImage == ImageInit /\ [][ImageNext]_vars

----------------------------------------------------------------------------
\* main: the 256 x 256 image of byte pairs.

\* The byte values the input file is made of.
FreqBytes == {0, 1, 255}

\* The contents of the input file.
FreqInputs == UNION {[1..m -> FreqBytes] : m \in 0..MaxFreqLen}

\* let mut image: Image<u32> = Image::new(image_size, image_size, 0);
FreqInit ==
    /\ overflow_checks \in BOOLEAN
    /\ CurveIdle
    /\ LET img == Image_new(image_size, image_size, 0) IN
       /\ width = img.width /\ height = img.height /\ data = img.data
       /\ width0 = image_size /\ height0 = image_size
    /\ panicked = FALSE
    /\ op = "new" /\ inverted = FALSE /\ arg = 0
    /\ before = <<>> /\ read = 0 /\ edits = 0

\* put_points(&mut image, input_bytes);
MainPutPoints(input_bytes) ==
    /\ ~panicked
    /\ op = "new"
    /\ LET r == put_points(width, height, data, input_bytes) IN
       /\ panicked' = r.panic
       /\ data' = r.data
    /\ edits' = edits + 1
    /\ inverted' = FALSE
    /\ Called("put_points", input_bytes)
    /\ read' = 0 /\ UNCHANGED <<width, height>>

FreqNext == \E input_bytes \in FreqInputs : MainPutPoints(input_bytes)

SpecFreq == FreqInit /\ [][FreqNext]_vars

----------------------------------------------------------------------------
\* The claims.

\* m is a power of two.
IsPow2(m) == \E k \in 0..m : 2 ^ k = m

\* p and q differ by exactly 1 in exactly one coordinate.
Adjacent(p, q) ==
    \/ p.y = q.y /\ (p.x = q.x + 1 \/ q.x = p.x + 1)
    \/ p.x = q.x /\ (p.y = q.y + 1 \/ q.y = p.y + 1)

\* Number of indices j with bytes[j] = px and bytes[j + 1] = py.
PairCount(bytes, px, py) ==
    Cardinality({j \in 1..(Len(bytes) - 1) : bytes[j] = px /\ bytes[j + 1] = py})

CurveTransforms == {"hilbertify", "unhilbertify"}

\* C1: for a power-of-two size n and every v in 0..n*n-1,
\* point_to_value(value_to_point(v)) = v (and neither call panics).
C1_RoundTrip ==
    IsPow2(n) =>
        /\ cpc # "panic"
        /\ i > 0 => back = i - 1

C1_Witness == cpc = "done" /\ n = 8 /\ i = 64 /\ back = 63

\* C2: for a power-of-two size n, value_to_point maps the values walked so far
\* to as many distinct points, all inside [0, n) x [0, n); when the walk is
\* done these are n*n points.
C2_Bijection ==
    (IsPow2(n) /\ cpc \in {"loop", "done"}) =>
        /\ Cardinality(points) = i
        /\ \A p \in points : p.x >= 0 /\ p.x < n /\ p.y >= 0 /\ p.y < n
        /\ cpc = "done" => i = n * n

C2_Witness == cpc = "done" /\ n = 8 /\ Cardinality(points) = 64

\* C3: for a power-of-two size n, value_to_point(0) = (0, 0) and the points of
\* v and v + 1 are lattice neighbours.
C3_Locality ==
    (IsPow2(n) /\ cpc \in {"loop", "done"}) =>
        /\ i = 1 => point = Pos2(0, 0)
        /\ i >= 2 => Adjacent(prev_point, point)

C3_Witness ==
    cpc = "loop" /\ n = 8 /\ i = 33 /\ Adjacent(prev_point, point)

\* C6: HilbertCurve::new(size) returns a curve exactly when size is a power of
\* two; for every other size, 0 included, it fails.
C6_NewFailsUnlessPowerOfTwo ==
    cpc # "start" => ((curve # NoCurve) <=> IsPow2(n))

\* C4: on a square image whose side is a power of two, hilbertify and
\* unhilbertify return, and each undoes the other: after one and then the
\* other every cell holds what it held before the two calls.
C4_RoundTrip ==
    [][/\ (op' \in CurveTransforms /\ width = height /\ IsPow2(width))
            => ~panicked'
       /\ (/\ op \in CurveTransforms /\ op' \in CurveTransforms /\ op' # op
           /\ width = height /\ IsPow2(width))
            => data' = before]_vars

C4_Witness ==
    /\ inverted /\ op = "unhilbertify" /\ ~panicked
    /\ width = 4 /\ height = 4
    /\ before # data
    /\ \E a, b \in 1..Len(data) : data[a] # data[b]

\* C7: reading or writing image[pos] with pos.x >= width or pos.y >= height
\* fails.
C7_OutOfRangeFails ==
    (op \in {"index", "index_mut"} /\ (arg.x >= width \/ arg.y >= height))
        => panicked

\* C8: hilbertify and unhilbertify on an image that is not square, or whose
\* side is not a power of two, fail and leave every cell as it was.
C8_RejectedUntouched ==
    (op \in CurveTransforms /\ (width # height \/ ~IsPow2(width)))
        => (panicked /\ data = before)

\* C9: remap_positions(f) for a bijection f returns, and afterwards the cell at
\* f(k) holds what the cell at k held before the call, for every k.
C9_RemapMoves ==
    [][op' = "remap_positions" =>
          /\ ~panicked'
          /\ Len(data') = Len(data)
          /\ \A k \in 1..Len(data) : data'[arg'[k] + 1] = data[k]]_vars

C9_Witness ==
    /\ op = "remap_positions" /\ ~panicked
    /\ arg = <<1, 2, 0>>
    /\ data[1] # data[2]

\* C10: after any calls on the image, data has width * height cells and width
\* and height are the ones given to Image::new.
C10_Shape ==
    /\ Len(data) = width * height
    /\ width = width0
    /\ height = height0

C10_Witness ==
    /\ op = "map" /\ edits = 1
    /\ width = 3 /\ height = 2
    /\ \E k \in 1..Len(data) : data[k] = 255

\* C5: put_points on the zero-filled 256 x 256 image returns and leaves in each
\* cell (x, y) the number of indices i with bytes[i] = x and bytes[i + 1] = y;
\* a sequence of length 0 or 1 leaves every cell zero.
C5_PairCounts ==
    (op = "put_points" /\ width = image_size /\ height = image_size) =>
        /\ ~panicked
        /\ data = [k \in 1..(image_size * image_size) |->
                      PairCount(arg, (k - 1) % image_size, (k - 1) \div image_size)]
        /\ Len(arg) <= 1 => data = Image_new(image_size, image_size, 0).data

C5_Witness ==
    /\ op = "put_points" /\ width = image_size /\ height = image_size
    /\ arg = <<0, 1, 0, 1>>
    /\ data[1 * image_size + 0 + 1] = 2
    /\ data[0 * image_size + 1 + 1] = 1

====
